---------------------------- MODULE Spec2Model ----------------------------
(***************************************************************************)
(* The worker wrapper of tunny (src/worker.go): the run loop of one        *)
(* goroutine per wrapper, interrupt(), stop() and join(), together with    *)
(* the submitters that take a wrapper's request channel from workersChan,  *)
(* write one request to it and collect the result.                         *)
(*                                                                         *)
(* Channels are unbuffered: a send and its receive are one step, taken     *)
(* when both sides are at their channel operation.  A closed channel is    *)
(* always ready to be received from; closing it again panics, and an       *)
(* unrecovered panic ends the whole process.                               *)
(***************************************************************************)
EXTENDS Naturals, Sequences, FiniteSets

\* Bounds of the model.
NumWorkers == 1
NumSubmitters == 2
NumInterrupts == 2

Wrappers == 1..NumWorkers
Submitters == 1..NumSubmitters

\* The payload of each submitter's request.  The wrapper never looks into a
\* payload, so the requests are given payloads that tell them apart.
PayloadOf(s) == 20 + s
Kinds == {"run", "process"}

\* No wrapper / no submitter.
None == 0

VARIABLES
    pc,             \* wrapper: where its run() goroutine is
    interruptChan,  \* wrapper: w.interruptChan, "open" or "closed"
    closeChan,      \* wrapper: w.closeChan
    closedChan,     \* wrapper: w.closedChan
    req,            \* wrapper: the request received from w.reqChan
    res,            \* wrapper: the result of worker.Process
    terminateCalls, \* wrapper: calls of worker.Terminate
    spc,            \* submitter: where it is
    held,           \* submitter: the wrapper whose reqChan and interrupt hook
                    \*   it holds, until it returns
    kind,           \* submitter: the kind of the request it submits
    payload,        \* submitter: the payload of its request
    retChan,        \* submitter: the values sent on its return channel
    ustate,         \* submitter: what became of its request
    calls,          \* the calls of interrupt() made so far
    readers,        \* wrapper: calls of interrupt() that have evaluated
                    \*   w.interruptChan, still the wrapper's, and not yet closed it
    staleReaders,   \* wrapper: the same, for a channel the run loop has replaced
    opc,            \* owner of the wrapper: stop() and join()
    panicked,       \* the process has panicked
    fired           \* wrapper: when the current interruptChan was closed

wvars == <<pc, interruptChan, closeChan, closedChan, req, res, terminateCalls>>
svars == <<spc, held, kind, payload, retChan, ustate>>
ivars == <<calls, readers, staleReaders>>
vars == <<wvars, svars, ivars, opc, panicked, fired>>

NoReq == [kind |-> "none", payload |-> 0, retChan |-> None]

\* worker.Process of the scenario in the specification: doubles its input.
WorkerProcess(p) == 2 * p

Init ==
    /\ pc = [w \in Wrappers |-> "Idle"]
    /\ interruptChan = [w \in Wrappers |-> "open"]
    /\ closeChan = [w \in Wrappers |-> "open"]
    /\ closedChan = [w \in Wrappers |-> "open"]
    /\ req = [w \in Wrappers |-> NoReq]
    /\ res = [w \in Wrappers |-> 0]
    /\ terminateCalls = [w \in Wrappers |-> 0]
    /\ spc = [s \in Submitters |-> "Start"]
    /\ held = [s \in Submitters |-> None]
    /\ kind \in [Submitters -> Kinds]
    /\ payload = [s \in Submitters |-> 0]
    /\ retChan = [s \in Submitters |-> << >>]
    /\ ustate = [s \in Submitters |-> "new"]
    /\ calls = 0
    /\ readers = [w \in Wrappers |-> 0]
    /\ staleReaders = [w \in Wrappers |-> 0]
    /\ opc = [w \in Wrappers |-> "Running"]
    /\ panicked = FALSE
    /\ fired = [w \in Wrappers |-> "none"]

-----------------------------------------------------------------------------
\* The run loop.

\* When close(w.interruptChan) happens, seen from the run loop: with no unit
\* in flight, before the cycle's offer is taken ("offering": in
\* BlockUntilReady or publishing w.reqChan), or after it was taken ("wait").
FiredWhen(w) ==
    IF pc[w] \in {"Idle", "Offering"} THEN "offering" ELSE "wait"

\* The end of one cycle of the for loop, back to its top, without replacing
\* w.interruptChan: a channel that is closed here was closed in a cycle that
\* is over ("stale").
NextCycle(w) ==
    /\ pc' = [pc EXCEPT ![w] = "Idle"]
    /\ fired' = [fired EXCEPT ![w] = IF interruptChan[w] = "closed" THEN "stale" ELSE "none"]
    /\ UNCHANGED <<interruptChan, readers, staleReaders>>

\* w.interruptChan = make(chan struct{}), and back to the top of the loop:
\* every interrupt() call that has read the old channel now holds a closed
\* channel that is no longer the wrapper's.
Rearm(w) ==
    /\ interruptChan' = [interruptChan EXCEPT ![w] = "open"]
    /\ staleReaders' = [staleReaders EXCEPT ![w] = @ + readers[w]]
    /\ readers' = [readers EXCEPT ![w] = 0]
    /\ fired' = [fired EXCEPT ![w] = "none"]
    /\ pc' = [pc EXCEPT ![w] = "Idle"]

\* w.worker.BlockUntilReady() returns.
BlockUntilReady(w) ==
    /\ ~panicked
    /\ pc[w] = "Idle"
    /\ pc' = [pc EXCEPT ![w] = "Offering"]
    /\ UNCHANGED <<interruptChan, closeChan, closedChan, req, res, terminateCalls,
                   svars, ivars, opc, panicked, fired>>

\* A submitter arrives with its request and waits at <-workersChan.
Submit(s) ==
    /\ ~panicked
    /\ spc[s] = "Start"
    /\ spc' = [spc EXCEPT ![s] = "Waiting"]
    /\ UNCHANGED <<wvars, held, kind, payload, retChan, ustate, ivars, opc, panicked, fired>>

\* case w.workersChan <- w.reqChan, received by submitter s.
Offer(w, s) ==
    /\ ~panicked
    /\ pc[w] = "Offering"
    /\ spc[s] = "Waiting"
    /\ pc' = [pc EXCEPT ![w] = "Accepting"]
    /\ spc' = [spc EXCEPT ![s] = "Holding"]
    /\ held' = [held EXCEPT ![s] = w]
    /\ UNCHANGED <<interruptChan, closeChan, closedChan, req, res, terminateCalls,
                   kind, payload, retChan, ustate, ivars, opc, panicked, fired>>

\* ObserveClose with the close signal also acted on during BlockUntilReady.
ObserveCloseUnready(w) ==
    /\ ~panicked
    /\ pc[w] \in {"Idle", "Offering"}
    /\ closeChan[w] = "closed"
    /\ pc' = [pc EXCEPT ![w] = "Closing"]
    /\ UNCHANGED <<interruptChan, closeChan, closedChan, req, res, terminateCalls,
                   svars, ivars, opc, panicked, fired>>

\* ObserveClose with the close signal also acted on while a unit is executing
\* or its result is waiting to be delivered.
ObserveCloseMidFlight(w) ==
    /\ ~panicked
    /\ pc[w] \in {"Offering", "Executing", "Delivering"}
    /\ closeChan[w] = "closed"
    /\ pc' = [pc EXCEPT ![w] = "Closing"]
    /\ UNCHANGED <<interruptChan, closeChan, closedChan, req, res, terminateCalls,
                   svars, ivars, opc, panicked, fired>>

\* case <-w.closeChan: return.
ObserveClose(w) ==
    /\ ~panicked
    /\ pc[w] = "Offering"
    /\ closeChan[w] = "closed"
    /\ pc' = [pc EXCEPT ![w] = "Closing"]
    /\ UNCHANGED <<interruptChan, closeChan, closedChan, req, res, terminateCalls,
                   svars, ivars, opc, panicked, fired>>

\* Accept with the request channel also received from at the publish wait.
AcceptWhileOffering(w, s) ==
    /\ ~panicked
    /\ pc[w] \in {"Offering", "Accepting"}
    /\ spc[s] = "Holding"
    /\ held[s] = w
    /\ req' = [req EXCEPT ![w] = [kind |-> kind[s], payload |-> PayloadOf(s), retChan |-> s]]
    /\ payload' = [payload EXCEPT ![s] = PayloadOf(s)]
    /\ spc' = [spc EXCEPT ![s] = IF kind[s] = "process" THEN "Collecting" ELSE "Done"]
    /\ held' = [held EXCEPT ![s] = IF kind[s] = "process" THEN w ELSE None]
    /\ pc' = [pc EXCEPT ![w] = "Executing"]
    /\ ustate' = [ustate EXCEPT ![s] = "executing"]
    /\ UNCHANGED <<interruptChan, closeChan, closedChan, res, terminateCalls,
                   kind, retChan, ivars, opc, panicked, fired>>

\* case req := <-w.reqChan, sent by submitter s, which holds w.reqChan.
Accept(w, s) ==
    /\ ~panicked
    /\ pc[w] = "Accepting"
    /\ spc[s] = "Holding"
    /\ held[s] = w
    /\ req' = [req EXCEPT ![w] = [kind |-> kind[s], payload |-> PayloadOf(s), retChan |-> s]]
    /\ payload' = [payload EXCEPT ![s] = PayloadOf(s)]
    /\ spc' = [spc EXCEPT ![s] = IF kind[s] = "process" THEN "Collecting" ELSE "Done"]
    /\ held' = [held EXCEPT ![s] = IF kind[s] = "process" THEN w ELSE None]
    /\ pc' = [pc EXCEPT ![w] = "Executing"]
    /\ ustate' = [ustate EXCEPT ![s] = "executing"]
    /\ UNCHANGED <<interruptChan, closeChan, closedChan, res, terminateCalls,
                   kind, retChan, ivars, opc, panicked, fired>>

\* AcceptInterrupted without w.interruptChan = make(...).
AcceptInterruptedNoRearm(w) ==
    /\ ~panicked
    /\ pc[w] = "Accepting"
    /\ interruptChan[w] = "closed"
    /\ NextCycle(w)
    /\ UNCHANGED <<closeChan, closedChan, req, res, terminateCalls,
                   svars, calls, opc, panicked>>

\* case <-w.interruptChan of the accept wait: w.interruptChan = make(...).
AcceptInterrupted(w) ==
    /\ ~panicked
    /\ pc[w] = "Accepting"
    /\ interruptChan[w] = "closed"
    /\ Rearm(w)
    /\ UNCHANGED <<closeChan, closedChan, req, res, terminateCalls,
                   svars, calls, opc, panicked>>

\* RunRequest followed by a deliver wait, as for a result-returning request.
RunRequestDeliver(w) ==
    /\ ~panicked
    /\ pc[w] = "Executing"
    /\ req[w].kind = "run"
    /\ ustate' = [ustate EXCEPT ![req[w].retChan] = "ran"]
    /\ pc' = [pc EXCEPT ![w] = "Delivering"]
    /\ UNCHANGED <<interruptChan, closeChan, closedChan, req, res, terminateCalls,
                   spc, held, kind, payload, retChan, ivars, opc, panicked, fired>>

\* case *runRequest: w.worker.Run(req.getPayload()) returns.
RunRequest(w) ==
    /\ ~panicked
    /\ pc[w] = "Executing"
    /\ req[w].kind = "run"
    /\ ustate' = [ustate EXCEPT ![req[w].retChan] = "ran"]
    /\ req' = [req EXCEPT ![w] = NoReq]
    /\ NextCycle(w)
    /\ UNCHANGED <<closeChan, closedChan, res, terminateCalls,
                   spc, held, kind, payload, retChan, calls, opc, panicked>>

\* ProcessRequest with the delivery left to another goroutine: the loop goes
\* on to its next cycle while the result is still to be delivered.
ProcessRequestAsync(w) ==
    /\ ~panicked
    /\ pc[w] = "Executing"
    /\ req[w].kind = "process"
    /\ ustate' = [ustate EXCEPT ![req[w].retChan] = "delivering"]
    /\ req' = [req EXCEPT ![w] = NoReq]
    /\ NextCycle(w)
    /\ UNCHANGED <<closeChan, closedChan, res, terminateCalls,
                   spc, held, kind, payload, retChan, calls, opc, panicked>>

\* ProcessRequest with the payload kept as the result.
ProcessRequestEcho(w) ==
    /\ ~panicked
    /\ pc[w] = "Executing"
    /\ req[w].kind = "process"
    /\ res' = [res EXCEPT ![w] = req[w].payload]
    /\ ustate' = [ustate EXCEPT ![req[w].retChan] = "delivering"]
    /\ pc' = [pc EXCEPT ![w] = "Delivering"]
    /\ UNCHANGED <<interruptChan, closeChan, closedChan, req, terminateCalls,
                   spc, held, kind, payload, retChan, ivars, opc, panicked, fired>>

\* case *processRequest: res := w.worker.Process(processReq.getPayload()).
ProcessRequest(w) ==
    /\ ~panicked
    /\ pc[w] = "Executing"
    /\ req[w].kind = "process"
    /\ res' = [res EXCEPT ![w] = WorkerProcess(req[w].payload)]
    /\ ustate' = [ustate EXCEPT ![req[w].retChan] = "delivering"]
    /\ pc' = [pc EXCEPT ![w] = "Delivering"]
    /\ UNCHANGED <<interruptChan, closeChan, closedChan, req, terminateCalls,
                   spc, held, kind, payload, retChan, ivars, opc, panicked, fired>>

\* Deliver with the result sent on the return channel of another request.
DeliverMisrouted(w) ==
    /\ ~panicked
    /\ pc[w] = "Delivering"
    /\ \E s \in Submitters :
        /\ spc[s] = "Collecting"
        /\ retChan' = [retChan EXCEPT ![s] = Append(@, res[w])]
        /\ spc' = [spc EXCEPT ![s] = "Done"]
        /\ held' = [held EXCEPT ![s] = None]
    /\ ustate' = [ustate EXCEPT ![req[w].retChan] = "delivered"]
    /\ req' = [req EXCEPT ![w] = NoReq]
    /\ res' = [res EXCEPT ![w] = 0]
    /\ NextCycle(w)
    /\ UNCHANGED <<closeChan, closedChan, terminateCalls,
                   kind, payload, calls, opc, panicked>>

\* case processReq.retChan <- res, received by the submitter of the request.
Deliver(w) ==
    /\ ~panicked
    /\ pc[w] = "Delivering"
    /\ spc[req[w].retChan] = "Collecting"
    /\ retChan' = [retChan EXCEPT ![req[w].retChan] = Append(@, res[w])]
    /\ spc' = [spc EXCEPT ![req[w].retChan] = "Done"]
    /\ held' = [held EXCEPT ![req[w].retChan] = None]
    /\ ustate' = [ustate EXCEPT ![req[w].retChan] = "delivered"]
    /\ req' = [req EXCEPT ![w] = NoReq]
    /\ res' = [res EXCEPT ![w] = 0]
    /\ NextCycle(w)
    /\ UNCHANGED <<closeChan, closedChan, terminateCalls,
                   kind, payload, calls, opc, panicked>>

\* case <-w.interruptChan of the deliver wait: w.interruptChan = make(...).
DeliverInterrupted(w) ==
    /\ ~panicked
    /\ pc[w] = "Delivering"
    /\ interruptChan[w] = "closed"
    /\ Rearm(w)
    /\ ustate' = [ustate EXCEPT ![req[w].retChan] = "dropped"]
    /\ req' = [req EXCEPT ![w] = NoReq]
    /\ res' = [res EXCEPT ![w] = 0]
    /\ UNCHANGED <<closeChan, closedChan, terminateCalls,
                   spc, held, kind, payload, retChan, calls, opc, panicked>>

\* The deferred function without the call of Terminate.
TerminateSkipped(w) ==
    /\ ~panicked
    /\ pc[w] = "Closing"
    /\ pc' = [pc EXCEPT ![w] = "Terminated"]
    /\ UNCHANGED <<interruptChan, closeChan, closedChan, req, res, terminateCalls,
                   svars, ivars, opc, panicked, fired>>

\* Terminate with the deferred function ending there, closedChan left open.
TerminateNoClose(w) ==
    /\ ~panicked
    /\ pc[w] = "Closing"
    /\ terminateCalls' = [terminateCalls EXCEPT ![w] = @ + 1]
    /\ pc' = [pc EXCEPT ![w] = "Closed"]
    /\ UNCHANGED <<interruptChan, closeChan, closedChan, req, res,
                   svars, ivars, opc, panicked, fired>>

\* The deferred function of run(), first statement: w.worker.Terminate()
\* returns.
Terminate(w) ==
    /\ ~panicked
    /\ pc[w] = "Closing"
    /\ terminateCalls' = [terminateCalls EXCEPT ![w] = @ + 1]
    /\ pc' = [pc EXCEPT ![w] = "Terminated"]
    /\ UNCHANGED <<interruptChan, closeChan, closedChan, req, res,
                   svars, ivars, opc, panicked, fired>>

\* CloseClosedChan with the run loop starting over instead of ending.
CloseClosedChanRestart(w) ==
    /\ ~panicked
    /\ pc[w] = "Terminated"
    /\ closedChan' = [closedChan EXCEPT ![w] = "closed"]
    /\ pc' = [pc EXCEPT ![w] = "Idle"]
    /\ UNCHANGED <<interruptChan, closeChan, req, res, terminateCalls,
                   svars, ivars, opc, panicked, fired>>

\* The deferred function of run(), second statement: close(w.closedChan),
\* and the goroutine ends.
CloseClosedChan(w) ==
    /\ ~panicked
    /\ pc[w] = "Terminated"
    /\ closedChan' = [closedChan EXCEPT ![w] = "closed"]
    /\ pc' = [pc EXCEPT ![w] = "Closed"]
    /\ UNCHANGED <<interruptChan, closeChan, req, res, terminateCalls,
                   svars, ivars, opc, panicked, fired>>

-----------------------------------------------------------------------------
\* interrupt(), stop(), join() and the submitter's timeout.

\* interrupt() is called on wrapper w and evaluates w.interruptChan, the
\* argument of close.
InterruptCall(w) ==
    /\ ~panicked
    /\ calls < NumInterrupts
    /\ calls' = calls + 1
    /\ readers' = [readers EXCEPT ![w] = @ + 1]
    /\ UNCHANGED <<wvars, svars, staleReaders, opc, panicked, fired>>

\* The submitter stops waiting on its return channel and calls the
\* interrupt hook of the wrapper it reached.
Timeout(s) ==
    /\ ~panicked
    /\ spc[s] = "Collecting"
    /\ calls < NumInterrupts
    /\ spc' = [spc EXCEPT ![s] = "TimedOut"]
    /\ held' = [held EXCEPT ![s] = None]
    /\ calls' = calls + 1
    /\ readers' = [readers EXCEPT ![held[s]] = @ + 1]
    /\ UNCHANGED <<wvars, kind, payload, retChan, ustate, staleReaders, opc,
                   panicked, fired>>

\* close(w.interruptChan); w.worker.Interrupt(), by a call that evaluated
\* w.interruptChan before (stale) or after the run loop last replaced it.
\* Closing a closed channel panics, and a replaced channel is closed.
InterruptClose(w, stale) ==
    /\ ~panicked
    /\ IF stale
       THEN /\ staleReaders[w] > 0
            /\ staleReaders' = [staleReaders EXCEPT ![w] = @ - 1]
            /\ panicked' = TRUE
            /\ UNCHANGED <<interruptChan, fired, readers>>
       ELSE /\ readers[w] > 0
            /\ readers' = [readers EXCEPT ![w] = @ - 1]
            /\ IF interruptChan[w] = "closed"
               THEN /\ panicked' = TRUE
                    /\ UNCHANGED <<interruptChan, fired>>
               ELSE /\ interruptChan' = [interruptChan EXCEPT ![w] = "closed"]
                    /\ fired' = [fired EXCEPT ![w] = FiredWhen(w)]
                    /\ UNCHANGED panicked
            /\ UNCHANGED staleReaders
    /\ UNCHANGED <<pc, closeChan, closedChan, req, res, terminateCalls,
                   svars, calls, opc>>

\* stop(): close(w.closeChan), called once by the owner of the wrapper.
Stop(w) ==
    /\ ~panicked
    /\ opc[w] = "Running"
    /\ closeChan' = [closeChan EXCEPT ![w] = "closed"]
    /\ opc' = [opc EXCEPT ![w] = "Stopped"]
    /\ UNCHANGED <<pc, interruptChan, closedChan, req, res, terminateCalls,
                   svars, ivars, panicked, fired>>

\* join(): <-w.closedChan returns.
Join(w) ==
    /\ ~panicked
    /\ opc[w] = "Stopped"
    /\ closedChan[w] = "closed"
    /\ opc' = [opc EXCEPT ![w] = "Joined"]
    /\ UNCHANGED <<wvars, svars, ivars, panicked, fired>>

-----------------------------------------------------------------------------
\* Specifications.

Loop ==
    \/ \E s \in Submitters : Submit(s)
    \/ \E w \in Wrappers : BlockUntilReady(w)
    \/ \E w \in Wrappers, s \in Submitters : Offer(w, s)
    \/ \E w \in Wrappers, s \in Submitters : Accept(w, s)
    \/ \E w \in Wrappers : RunRequest(w)
    \/ \E w \in Wrappers : ProcessRequest(w)
    \/ \E w \in Wrappers : Deliver(w)

Interruption ==
    \/ \E w \in Wrappers : AcceptInterrupted(w)
    \/ \E w \in Wrappers : DeliverInterrupted(w)
    \/ \E w \in Wrappers : InterruptCall(w)
    \/ \E s \in Submitters : Timeout(s)
    \/ \E w \in Wrappers, stale \in BOOLEAN : InterruptClose(w, stale)

Shutdown ==
    \/ \E w \in Wrappers : ObserveClose(w)
    \/ \E w \in Wrappers : Terminate(w)
    \/ \E w \in Wrappers : CloseClosedChan(w)
    \/ \E w \in Wrappers : Stop(w)
    \/ \E w \in Wrappers : Join(w)

Next == Loop \/ Interruption \/ Shutdown

\* Every interleaving of submitters, interrupt(), stop() and join().
Spec == Init /\ [][Next]_vars

\* A goroutine that can take a step takes it: the capability's calls
\* return, and a submitter that holds a request channel writes to it and
\* then waits for its result.
LoopFair ==
    /\ \A s \in Submitters : WF_vars(Submit(s))
    /\ \A w \in Wrappers : WF_vars(BlockUntilReady(w))
    /\ \A w \in Wrappers : WF_vars(\E s \in Submitters : Offer(w, s))
    /\ \A w \in Wrappers : WF_vars(\E s \in Submitters : Accept(w, s))
    /\ \A w \in Wrappers : WF_vars(RunRequest(w))
    /\ \A w \in Wrappers : WF_vars(ProcessRequest(w))
    /\ \A w \in Wrappers : WF_vars(Deliver(w))

InterruptionFair ==
    /\ \A w \in Wrappers : WF_vars(AcceptInterrupted(w))
    /\ \A w \in Wrappers : WF_vars(DeliverInterrupted(w))
    /\ \A w \in Wrappers : WF_vars(\E stale \in BOOLEAN : InterruptClose(w, stale))

ShutdownFair ==
    /\ \A w \in Wrappers : WF_vars(ObserveClose(w))
    /\ \A w \in Wrappers : WF_vars(Terminate(w))
    /\ \A w \in Wrappers : WF_vars(CloseClosedChan(w))
    /\ \A w \in Wrappers : WF_vars(Join(w))

\* No call of interrupt() or stop(), no timeout.
QuietSpec == Init /\ [][Loop]_vars /\ LoopFair

\* Calls of interrupt() and timeouts, no stop().
InterruptSpec ==
    Init /\ [][Loop \/ Interruption]_vars /\ LoopFair /\ InterruptionFair

\* stop() and join(), no call of interrupt().
StopSpec == Init /\ [][Loop \/ Shutdown]_vars /\ LoopFair /\ ShutdownFair

-----------------------------------------------------------------------------
\* Claims.

\* C1: with no call of interrupt() or stop(), every submitter that has taken
\* a wrapper's request channel gets its request accepted, and if the request
\* is result-returning, from some point on its return channel has been sent
\* exactly one value, the output of Process for its payload.
C1_ResultDelivered ==
    \A s \in Submitters :
        (spc[s] = "Holding") ~>
            [](\/ ustate[s] = "ran"
               \/ kind[s] = "process" /\ retChan[s] = <<WorkerProcess(payload[s])>>)

\* Both submitters' results have been delivered, for different payloads.
C1_Witness ==
    \E s, t \in Submitters :
        /\ s # t
        /\ calls = 0
        /\ ustate[s] = "delivered" /\ ustate[t] = "delivered"
        /\ payload[s] # payload[t]
        /\ retChan[s] = <<WorkerProcess(payload[s])>>
        /\ retChan[t] = <<WorkerProcess(payload[t])>>

\* A wait of the run loop is ended by its interrupt case.
WaitInterrupted(w) == AcceptInterrupted(w) \/ DeliverInterrupted(w)

\* C2: re-arm correctness.  A call of interrupt() made while the wrapper
\* has no unit in flight and waits to publish its request channel never ends
\* the accept wait or the deliver wait of the unit whose submitter takes
\* that offer.
C2_OfferingInterruptHarmless ==
    [][\A w \in Wrappers : WaitInterrupted(w) => fired[w] # "offering"]_vars

\* The offer was taken, the submitter is about to write its unit, and the
\* interrupt channel closed before that offer is still the wrapper's.
C2_Witness ==
    \E w \in Wrappers, s \in Submitters :
        /\ pc[w] = "Accepting"
        /\ fired[w] = "offering"
        /\ spc[s] = "Holding" /\ held[s] = w

\* C3: a signal fired in one cycle of the run loop never ends an accept wait
\* or a deliver wait of a later cycle.
C3_NoStaleWakeup ==
    [][\A w \in Wrappers : WaitInterrupted(w) => fired[w] # "stale"]_vars

\* A cycle starts with the interrupt channel closed in an earlier cycle.
C3_Witness ==
    \E w \in Wrappers : pc[w] = "Idle" /\ fired[w] = "stale"

\* C4: no work is stranded.  With calls of interrupt() and no stop(), a
\* submitter that took a wrapper's offer is never left blocked on the request
\* channel: when the process is alive and no goroutine can take a step, no
\* submitter is still writing its unit.
C4_NoStrandedWrite ==
    (~panicked /\ ~ENABLED (Loop \/ Interruption)) =>
        \A s \in Submitters : spc[s] # "Holding"

\* A submitter is blocked writing to the request channel of a wrapper that
\* has gone back to publishing it.
C4_Witness ==
    \E w \in Wrappers, s \in Submitters :
        /\ ~panicked
        /\ spc[s] = "Holding" /\ held[s] = w
        /\ pc[w] = "Offering"

\* C5: with the capability's calls returning and the submitters completing
\* their hand-off, join() called after stop() returns, wherever the run loop
\* was when stop() was called.
C5_StopThenJoinReturns ==
    \A w \in Wrappers : (opc[w] = "Stopped") ~> (opc[w] = "Joined")

\* stop() has been called and join() has not returned, the wrapper is
\* waiting to deliver a result, and a submitter has not arrived yet.
C5_Witness ==
    \E w \in Wrappers, s \in Submitters :
        /\ opc[w] = "Stopped" /\ closeChan[w] = "closed"
        /\ pc[w] = "Delivering"
        /\ spc[s] = "Start"

\* C6: interrupt() is idempotent between re-arms.  A call of interrupt()
\* made before the run loop has replaced a fired interrupt channel does not
\* fail: the process never panics.
C6_InterruptNeverFails == ~panicked

\* A call of interrupt() is about to close an interrupt channel that another
\* call has closed and the run loop has not replaced.
C6_Witness ==
    \E w \in Wrappers :
        ~panicked /\ readers[w] > 0 /\ interruptChan[w] = "closed"

\* The submitter of the request a wrapper is delivering has timed out.
CallerGone(w) == spc[req[w].retChan] = "TimedOut"

\* C7: interrupt() called during the deliver wait of a result the caller
\* does not collect makes the wrapper stop waiting: the result is dropped
\* with nothing sent on the return channel, the interrupt channel is replaced
\* and the wrapper is back at the top of its loop.
C7_InterruptEndsDelivery ==
    \A w \in Wrappers, s \in Submitters :
        (/\ pc[w] = "Delivering" /\ req[w].retChan = s /\ CallerGone(w)
         /\ interruptChan[w] = "closed")
        ~> (/\ ustate[s] = "dropped" /\ retChan[s] = << >>
            /\ pc[w] = "Idle" /\ interruptChan[w] = "open")

\* interrupt() is about to close the interrupt channel of a wrapper that is
\* waiting to deliver to a caller that is gone, and the channel was closed
\* while Process was executing.
C7_Witness ==
    \E w \in Wrappers :
        /\ ~panicked
        /\ pc[w] = "Delivering" /\ CallerGone(w)
        /\ interruptChan[w] = "closed" /\ readers[w] > 0

\* C8: a value is sent only on the return channel of the request whose
\* payload produced it, and at most one value on any return channel.
C8_NoMisdelivery ==
    \A s \in Submitters :
        /\ Len(retChan[s]) <= 1
        /\ retChan[s] # << >> =>
              /\ kind[s] = "process"
              /\ ustate[s] = "delivered"
              /\ retChan[s][1] = WorkerProcess(payload[s])

\* One request's result was dropped by an interrupt with its caller still
\* waiting, and another request, with another payload, got its own result.
C8_Witness ==
    \E s, t \in Submitters :
        /\ ustate[s] = "dropped" /\ spc[s] = "Collecting"
        /\ ustate[t] = "delivered" /\ payload[t] # payload[s]
        /\ retChan[t] = <<WorkerProcess(payload[t])>>

\* The requests received by a wrapper and not yet through their execution
\* and deliver wait.
InFlight == {s \in Submitters : ustate[s] \in {"executing", "delivering"}}

\* C9: a wrapper has at most one request in Executing/Delivering: every
\* request in flight is the current request of a wrapper that is executing
\* or delivering it, and no two of them are with the same wrapper.
C9_OneAtATime ==
    /\ \A s \in InFlight :
          \E w \in Wrappers :
              /\ req[w].retChan = s
              /\ pc[w] = IF ustate[s] = "executing" THEN "Executing" ELSE "Delivering"
    /\ Cardinality(InFlight)
          = Cardinality({w \in Wrappers : pc[w] \in {"Executing", "Delivering"}})

\* A wrapper is waiting to deliver a result while another submitter is
\* already writing the next request to the same request channel.
C9_Witness ==
    \E w \in Wrappers, s \in Submitters :
        /\ pc[w] = "Delivering" /\ req[w].retChan # s
        /\ spc[s] = "Holding" /\ held[s] = w

\* C10: no two submitters hold the same wrapper's request channel with a
\* request still to be written to it.
C10_ExclusivePairing ==
    \A s, t \in Submitters :
        (s # t /\ spc[s] = "Holding" /\ spc[t] = "Holding") => held[s] # held[t]

\* An accept wait was ended by interrupt and the wrapper publishes the same
\* request channel again while the first submitter still holds it.
C10_Witness ==
    \E w \in Wrappers, s, t \in Submitters :
        /\ s # t /\ pc[w] = "Offering"
        /\ spc[s] = "Holding" /\ held[s] = w /\ spc[t] = "Waiting"

\* C11: when join() has returned, Terminate has been called exactly once and
\* has returned; Terminate is never called a second time; closedChan is
\* closed only by the goroutine that has returned from Terminate, once.
C11_TerminatedOnce ==
    \A w \in Wrappers :
        /\ terminateCalls[w] <= 1
        /\ terminateCalls[w] = 1 <=> pc[w] \in {"Terminated", "Closed"}
        /\ closedChan[w] = "closed" <=> pc[w] = "Closed"
        /\ opc[w] = "Joined" => closedChan[w] = "closed" /\ terminateCalls[w] = 1

\* join() has returned after a shutdown during which interrupt() was called.
C11_Witness ==
    \E w \in Wrappers :
        opc[w] = "Joined" /\ terminateCalls[w] = 1 /\ calls > 0

\* C12: the close signal is acted on only at the publish wait.  The wrapper
\* enters Closing only from Offering, with no request in flight, and a unit
\* that was executing or waiting to be delivered when the close signal was
\* already fired still finishes: it has run, or its result is sent on its
\* return channel.
C12_InFlightFinishes ==
    /\ [][\A w \in Wrappers :
            (pc'[w] = "Closing" /\ pc[w] # "Closing") =>
                pc[w] = "Offering" /\ req[w] = NoReq]_vars
    /\ \A w \in Wrappers, s \in Submitters :
          (/\ closeChan[w] = "closed"
           /\ pc[w] \in {"Executing", "Delivering"}
           /\ req[w].retChan = s)
          ~> (\/ ustate[s] = "ran"
              \/ retChan[s] = <<WorkerProcess(payload[s])>>)

\* stop() has been called while Process is executing a result-returning unit.
C12_Witness ==
    \E w \in Wrappers :
        /\ closeChan[w] = "closed" /\ opc[w] = "Stopped"
        /\ pc[w] = "Executing" /\ req[w].kind = "process"

\* The run loop has observed the close signal.
Exited(w) == pc[w] \in {"Closing", "Terminated", "Closed"}

\* C13: Closed is terminal.  Once the wrapper has observed the close signal
\* it stays out of the loop: no submitter receives its request channel from
\* the Dispatch Pool, it receives no request, and it makes no call of
\* BlockUntilReady, Run or Process.
C13_ClosedIsTerminal ==
    [][\A w \in Wrappers :
          Exited(w) =>
              /\ pc'[w] \in {"Closing", "Terminated", "Closed"}
              /\ req'[w] = req[w] /\ res'[w] = res[w]
              /\ \A s \in Submitters :
                    /\ held'[s] = w => held[s] = w
                    /\ (spc[s] = "Holding" /\ held[s] = w) => spc'[s] = "Holding"]_vars

\* join() has returned while a submitter waits on the Dispatch Pool and
\* another still holds the request channel of the closed wrapper.
C13_Witness ==
    \E w \in Wrappers, s, t \in Submitters :
        /\ opc[w] = "Joined" /\ pc[w] = "Closed"
        /\ spc[s] = "Waiting"
        /\ spc[t] = "Holding" /\ held[t] = w

\* C14: once stop() has been called on a wrapper, no submitter receives that
\* wrapper's request channel from the Dispatch Pool any more: every offer
\* that is taken is taken before the close signal fired.
C14_NoOfferAfterStop ==
    [][\A w \in Wrappers, s \in Submitters :
          Offer(w, s) => closeChan[w] = "open"]_vars

\* The wrapper is at its publish wait with the close signal fired, no unit
\* in flight, and a submitter waiting on the Dispatch Pool.
C14_Witness ==
    \E w \in Wrappers, s \in Submitters :
        /\ ~panicked
        /\ pc[w] = "Offering" /\ closeChan[w] = "closed" /\ req[w] = NoReq
        /\ spc[s] = "Waiting"

\* C15: when the accept wait ends without a request received, it was ended
\* by the fired interrupt signal, and in that step the signal is replaced by
\* an unfired one, the wrapper is back at the top of its loop, and nothing
\* was executed: no request, result, outcome or return channel changes.
C15_AcceptInterruptFrame ==
    [][\A w \in Wrappers :
          (pc[w] = "Accepting" /\ pc'[w] \notin {"Accepting", "Executing"}) =>
              /\ interruptChan[w] = "closed" /\ interruptChan'[w] = "open"
              /\ pc'[w] = "Idle"
              /\ req'[w] = NoReq /\ res'[w] = res[w]
              /\ ustate' = ustate /\ retChan' = retChan]_vars

\* The accept wait was ended by interrupt: the wrapper is back at its
\* readiness wait with an unfired signal, the submitter's unit unwritten.
C15_Witness ==
    \E w \in Wrappers, s \in Submitters :
        /\ pc[w] = "Idle" /\ interruptChan[w] = "open" /\ calls > 0
        /\ spc[s] = "Holding" /\ held[s] = w /\ ustate[s] = "new"

\* C16: readiness precedes every offer and is not cancellable.  The wrapper
\* comes to its publish wait only by BlockUntilReady returning, a submitter
\* receives its request channel only at the publish wait, and a wrapper in
\* BlockUntilReady does nothing but return from it: with the close signal
\* fired it neither calls Terminate nor closes closedChan.
C16_ReadinessFirst ==
    [][\A w \in Wrappers :
          /\ (pc'[w] = "Offering" /\ pc[w] # "Offering") => pc[w] = "Idle"
          /\ \A s \in Submitters :
                (held'[s] = w /\ held[s] # w) => pc[w] = "Offering"
          /\ pc[w] = "Idle" =>
                /\ pc'[w] \in {"Idle", "Offering"}
                /\ terminateCalls'[w] = terminateCalls[w]
                /\ closedChan'[w] = closedChan[w]]_vars

\* stop() has been called and the wrapper, back from a unit, is in
\* BlockUntilReady: nothing of the shutdown has happened.
C16_Witness ==
    \E w \in Wrappers, s \in Submitters :
        /\ pc[w] = "Idle" /\ closeChan[w] = "closed" /\ opc[w] = "Stopped"
        /\ terminateCalls[w] = 0 /\ closedChan[w] = "open"
        /\ ustate[s] \in {"ran", "delivered"}

\* C17: a fire-and-forget unit is executed by one call of Run; when Run
\* returns the wrapper is at the top of its loop, with no deliver wait;
\* nothing is ever sent on a return channel for it, its submitter never
\* waits for a result, and once run it stays run.
C17_FireAndForget ==
    /\ [](\A s \in Submitters :
            kind[s] = "run" =>
                /\ retChan[s] = << >>
                /\ ustate[s] \in {"new", "executing", "ran"}
                /\ spc[s] \in {"Start", "Waiting", "Holding", "Done"})
    /\ [][\A w \in Wrappers :
            /\ (pc[w] = "Executing" /\ req[w].kind = "run" /\ pc'[w] # "Executing") =>
                  /\ pc'[w] = "Idle" /\ req'[w] = NoReq
                  /\ ustate[req[w].retChan] = "executing"
                  /\ ustate'[req[w].retChan] = "ran"
                  /\ retChan' = retChan
            /\ \A s \in Submitters : ustate[s] = "ran" => ustate'[s] = "ran"]_vars

\* A fire-and-forget unit has run, its submitter has returned, and the
\* wrapper is executing the next unit.
C17_Witness ==
    \E w \in Wrappers, s \in Submitters :
        /\ kind[s] = "run" /\ ustate[s] = "ran" /\ spc[s] = "Done"
        /\ retChan[s] = << >>
        /\ pc[w] = "Executing" /\ req[w].retChan # s

\* C18: the wrapper receives from its request channel only in the accept
\* wait, which it enters only when a submitter takes its offer and leaves
\* with the receive: at most one unit per taken offer.  A unit pending on
\* the request channel is received only in such an accept wait.
C18_ReceiveOnlyAfterOffer ==
    [][\A w \in Wrappers :
          /\ (req'[w] # req[w] /\ req'[w] # NoReq) =>
                pc[w] = "Accepting" /\ pc'[w] = "Executing"
          /\ (pc'[w] = "Accepting" /\ pc[w] # "Accepting") =>
                /\ pc[w] = "Offering"
                /\ \E s \in Submitters :
                      spc[s] = "Waiting" /\ spc'[s] = "Holding" /\ held'[s] = w
          /\ \A s \in Submitters :
                (spc[s] = "Holding" /\ held[s] = w /\ spc'[s] # "Holding") =>
                    /\ pc[w] = "Accepting" /\ pc'[w] = "Executing"
                    /\ req'[w].retChan = s]_vars

\* After an interrupted accept wait two submitters held the wrapper's
\* request channel: the accept wait opened by the later offer received one
\* unit, which is executing, and the other unit is still pending.
C18_Witness ==
    \E w \in Wrappers, s, t \in Submitters :
        /\ s # t
        /\ pc[w] = "Executing" /\ req[w].retChan = s /\ ustate[s] = "executing"
        /\ spc[t] = "Holding" /\ held[t] = w

=============================================================================
